---- MODULE Spec2Model ----
(***************************************************************************)
(* Game-state engine of Fragmented Squares (src/Code.py, class             *)
(* FragmentedSquaresGame): edge/square model, move legality, destruction,  *)
(* win detection, the turn state machine and the move history.             *)
(***************************************************************************)
EXTENDS Integers, Sequences, FiniteSets, TLC

\* The engine's attributes, and ret: the (success, message) pair returned by
\* the most recent make_move call (empty message before the first call).
VARIABLES all_squares_coords, active_squares_coords, edges, current_player,
          winner, last_move_destructions, move_history, ret

\* init_call: the argument of the constructor call and the exception it
\* raised (None if it returned); qret: the value returned by the most recent
\* call when that call was a query (is_valid_move, get_legal_moves,
\* get_state_summary), NoQuery otherwise.
VARIABLES init_call, qret

vars == <<all_squares_coords, active_squares_coords, edges, current_player,
          winner, last_move_destructions, move_history, ret, init_call, qret>>

(* ------------------------------ constants ------------------------------ *)
LEFT_PLAYER == "Left (Blue)"
RIGHT_PLAYER == "Right (Red)"
BLUE == <<0, 0, 255>>
RED == <<255, 0, 0>>
HORIZONTAL == "H"
VERTICAL == "V"
\* Python's None (winner unset, value returned by reset).
None == "None"

(* ------------------------------- bounds -------------------------------- *)
\* Edge arguments handed to make_move have coordinates in -1..MaxCoord.
MaxCoord == 1
\* random.choice is drawn from a family of 2^ColorBits colourings per shape
\* (every colouring of a shape with at most ColorBits edges).
ColorBits == 4

(* ------------------------------- shapes -------------------------------- *)
simple_square == {<<0, 0>>}
l_shape_squares == {<<0, 0>>, <<0, 1>>, <<1, 0>>}
two_by_two == {<<0, 0>>, <<0, 1>>, <<1, 0>>, <<1, 1>>}
\* The shapes an engine is constructed with.
Shapes == {simple_square, l_shape_squares, two_by_two}

\* The edge identifiers callers pass: known and unknown to the model.
EdgeArgs == ((-1..MaxCoord) \X (-1..MaxCoord)) \X {HORIZONTAL, VERTICAL}

(* --------------------------- pure functions ---------------------------- *)
\* get_squares_sharing_edge, relative to an original shape.
SquaresSharing(shape, e) ==
    LET r == e[1][1]
        c == e[1][2]
        squares == IF e[2] = HORIZONTAL THEN {<<r, c>>, <<r + 1, c>>}
                   ELSE IF e[2] = VERTICAL THEN {<<r, c>>, <<r, c + 1>>}
                   ELSE {}
    IN  squares \cap shape

get_squares_sharing_edge(e) == SquaresSharing(all_squares_coords, e)

get_edges_of_square(sq) ==
    LET r == sq[1]
        c == sq[2]
    IN  { <<<<r - 1, c>>, HORIZONTAL>>, <<<<r, c>>, HORIZONTAL>>,
          <<<<r, c - 1>>, VERTICAL>>, <<<<r, c>>, VERTICAL>> }

\* Variant: the edge left of a square is not collected.
potential_edges_noleft(shape) ==
    UNION { { <<<<sq[1], sq[2]>>, HORIZONTAL>>, <<<<sq[1], sq[2]>>, VERTICAL>>,
              <<<<sq[1] - 1, sq[2]>>, HORIZONTAL>> } : sq \in shape }

\* The four potential edges collected per square by _initialize_edges.
potential_edges(shape) ==
    UNION { { <<<<sq[1], sq[2]>>, HORIZONTAL>>, <<<<sq[1], sq[2]>>, VERTICAL>>,
              <<<<sq[1] - 1, sq[2]>>, HORIZONTAL>>,
              <<<<sq[1], sq[2] - 1>>, VERTICAL>> } : sq \in shape }

\* The keys of self.edges after _initialize_edges.
EdgeKeys(shape) ==
    { e \in potential_edges(shape) : SquaresSharing(shape, e) \cap shape # {} }

\* Position of an edge in a fixed enumeration of an edge set.
EdgeLess(f, e) ==
    \/ f[1][1] < e[1][1]
    \/ f[1][1] = e[1][1] /\ f[1][2] < e[1][2]
    \/ f[1] = e[1] /\ f[2] = HORIZONTAL /\ e[2] = VERTICAL
EdgeRank(E, e) == Cardinality({f \in E : EdgeLess(f, e)})

\* Outcomes of random.choice([RED, BLUE]) over the edges of a shape: the
\* colourings whose edge of rank i takes bit (i mod ColorBits) of a seed.
ColorChoices(E) ==
    { [e \in E |-> IF (seed \div (2 ^ (EdgeRank(E, e) % ColorBits))) % 2 = 1
                   THEN BLUE ELSE RED] : seed \in 0..(2 ^ ColorBits - 1) }

\* self.edges as built by _initialize_edges with colouring col.
InitialEdges(shape, col) ==
    [e \in EdgeKeys(shape) |-> [color |-> col[e], exists |-> TRUE]]

\* The edge maps _initialize_edges can leave in self.edges, per shape.
_initialize_edges ==
    [shape \in Shapes |->
        { InitialEdges(shape, col) : col \in ColorChoices(EdgeKeys(shape)) }]

\* Python truthiness of self.winner.
Truthy(w) == w # None

\* Variant: the colour rule (check 2) is left out.
is_valid_move_nocolor(e) ==
    IF Truthy(winner) THEN FALSE
    ELSE IF e \notin DOMAIN edges \/ ~edges[e].exists THEN FALSE
    ELSE IF ~(\E sq \in get_squares_sharing_edge(e) :
                 sq \in active_squares_coords)
         THEN FALSE
    ELSE TRUE

\* Variant: only existence and colour are checked (checks 0 and 3 left out).
is_valid_move_old(e) ==
    IF e \notin DOMAIN edges \/ ~edges[e].exists THEN FALSE
    ELSE IF ~( (current_player = LEFT_PLAYER /\ edges[e].color = BLUE)
               \/ (current_player = RIGHT_PLAYER /\ edges[e].color = RED) )
         THEN FALSE
    ELSE TRUE

\* Variant: check 3 asks for a bordered square of the shape, active or not.
is_valid_move_shape(e) ==
    IF Truthy(winner) THEN FALSE
    ELSE IF e \notin DOMAIN edges \/ ~edges[e].exists THEN FALSE
    ELSE IF ~( (current_player = LEFT_PLAYER /\ edges[e].color = BLUE)
               \/ (current_player = RIGHT_PLAYER /\ edges[e].color = RED) )
         THEN FALSE
    ELSE IF get_squares_sharing_edge(e) = {} THEN FALSE
    ELSE TRUE

is_valid_move(e) ==
    IF Truthy(winner) THEN FALSE
    ELSE IF e \notin DOMAIN edges \/ ~edges[e].exists THEN FALSE
    ELSE IF ~( (current_player = LEFT_PLAYER /\ edges[e].color = BLUE)
               \/ (current_player = RIGHT_PLAYER /\ edges[e].color = RED) )
         THEN FALSE
    ELSE IF ~(\E sq \in get_squares_sharing_edge(e) :
                 sq \in active_squares_coords)
         THEN FALSE
    ELSE TRUE

get_legal_moves == { e \in DOMAIN edges : is_valid_move(e) }

\* 'Blue' if edge_color == BLUE else 'Red'
ColorName(color) == IF color = BLUE THEN "Blue" ELSE "Red"

\* str(n) for the counts a move can report.
Str(n) == CASE n = 0 -> "0" [] n = 1 -> "1" [] n = 2 -> "2" [] OTHER -> "many"

\* The reason text make_move builds for a rejected edge (pieces of the
\* f-string, in order).
invalid_reason(e) ==
    IF e \notin DOMAIN edges \/ ~edges[e].exists
    THEN <<"Edge does not exist or already removed">>
    ELSE LET edge_color == edges[e].color
             player_req_color == IF current_player = LEFT_PLAYER
                                 THEN BLUE ELSE RED
         IN  IF edge_color # player_req_color
             THEN <<"Incorrect color (Player: ", current_player, ", Edge: ",
                    ColorName(edge_color), ")">>
             ELSE IF ~(\E sq \in get_squares_sharing_edge(e) :
                          sq \in active_squares_coords)
                  THEN <<"Edge does not border any active squares">>
                  ELSE <<"Unknown reason">>

\* Variant: every edge of a square the move destroys is removed with it.
edges_after_move_all(e) ==
    [f \in DOMAIN edges |->
        IF f = e \/ \E sq \in get_squares_sharing_edge(e) \cap active_squares_coords :
                       f \in get_edges_of_square(sq)
        THEN [edges[f] EXCEPT !.exists = FALSE]
        ELSE edges[f]]

\* self.edges after line 194 marks e as removed.
edges_after_move(e) == [edges EXCEPT ![e].exists = FALSE]

\* Variant: only the square that names the edge is looked at.
destroyed_this_turn_one(e) ==
    { sq \in get_squares_sharing_edge(e) \cap {e[1]} :
         sq \in active_squares_coords }

\* Squares removed from the active set by removing edge e.
destroyed_this_turn(e) ==
    { sq \in get_squares_sharing_edge(e) : sq \in active_squares_coords }

\* Variant: the squares sharing e are toggled instead of removed.
active_after_move_toggle(e) ==
    (active_squares_coords \ get_squares_sharing_edge(e))
        \cup (get_squares_sharing_edge(e) \ active_squares_coords)

\* The active set once the squares destroyed by e are removed.
active_after_move(e) == active_squares_coords \ destroyed_this_turn(e)

\* Variant: the player who did not move is declared the winner.
winner_after_move_other(active_after) ==
    IF active_after = {}
    THEN (IF current_player = LEFT_PLAYER THEN RIGHT_PLAYER ELSE LEFT_PLAYER)
    ELSE winner

\* Variant: the game-over check is left out.
winner_after_move_keep(active_after) == winner

\* Variant: the game is declared over while one square is still active.
winner_after_move_early(active_after) ==
    IF Cardinality(active_after) <= 1 THEN current_player ELSE winner

\* self.winner after the game-over check on the new active set.
winner_after_move(active_after) ==
    IF active_after = {} THEN current_player ELSE winner

\* Variant: the player is switched even when the move ended the game.
player_after_move_always(new_winner) ==
    IF current_player = LEFT_PLAYER THEN RIGHT_PLAYER ELSE LEFT_PLAYER

\* Variant: the player is never switched.
player_after_move_stay(new_winner) == current_player

\* self.current_player after the switch, given the winner after the move.
player_after_move(new_winner) ==
    IF ~Truthy(new_winner)
    THEN (IF current_player = LEFT_PLAYER THEN RIGHT_PLAYER ELSE LEFT_PLAYER)
    ELSE current_player

\* Variant: the turn number is the history length before the append.
move_data_zero(e, active_after) ==
    LET destroyed == destroyed_this_turn(e)
        over == active_after = {}
    IN  [ turn |-> Len(move_history),
          player |-> current_player,
          edge_removed |-> e,
          edge_color |-> ColorName(edges[e].color),
          squares_destroyed |-> destroyed,
          active_squares_before |-> active_after \cup destroyed,
          active_squares_after |-> active_after,
          game_over_after |-> over,
          winner |-> IF over THEN winner_after_move(active_after) ELSE None ]

\* Variant: the 'before' snapshot is taken after the squares were removed.
move_data_late(e, active_after) ==
    LET destroyed == destroyed_this_turn(e)
        over == active_after = {}
    IN  [ turn |-> Len(move_history) + 1,
          player |-> current_player,
          edge_removed |-> e,
          edge_color |-> ColorName(edges[e].color),
          squares_destroyed |-> destroyed,
          active_squares_before |-> active_after,
          active_squares_after |-> active_after,
          game_over_after |-> over,
          winner |-> IF over THEN winner_after_move(active_after) ELSE None ]

\* The log entry of a move on e, given the active set after the move.
move_data(e, active_after) ==
    LET destroyed == destroyed_this_turn(e)
        over == active_after = {}
    IN  [ turn |-> Len(move_history) + 1,
          player |-> current_player,
          edge_removed |-> e,
          edge_color |-> ColorName(edges[e].color),
          squares_destroyed |-> destroyed,
          active_squares_before |-> active_after \cup destroyed,
          active_squares_after |-> active_after,
          game_over_after |-> over,
          winner |-> IF over THEN winner_after_move(active_after) ELSE None ]

(* ------------------------------- actions ------------------------------- *)
\* get_state_summary: the dictionary it returns.
get_state_summary ==
    [ active_squares |-> Cardinality(active_squares_coords),
      current_player |-> current_player,
      winner |-> winner,
      total_moves |-> Len(move_history) ]

\* No query has returned since the last constructor, make_move or reset call.
NoQuery ==
    [ call |-> "none", valid |-> FALSE, legal |-> {},
      summary |-> [ active_squares |-> 0, current_player |-> None,
                    winner |-> None, total_moves |-> 0 ] ]

\* The state a constructed engine is left in by reset() inside __init__.
Constructed(squares_coords) ==
    /\ all_squares_coords = squares_coords
    /\ active_squares_coords = all_squares_coords
    /\ current_player = LEFT_PLAYER
    /\ winner = None
    /\ last_move_destructions = 0
    /\ move_history = <<>>
    /\ edges \in _initialize_edges[all_squares_coords]
    /\ ret = [success |-> FALSE, message |-> <<>>]
    /\ qret = NoQuery

\* No engine instance: the constructor raised before setting any attribute.
NoInstance ==
    /\ all_squares_coords = {}
    /\ active_squares_coords = {}
    /\ current_player = None
    /\ winner = None
    /\ last_move_destructions = 0
    /\ move_history = <<>>
    /\ edges = <<>>
    /\ ret = [success |-> FALSE, message |-> <<>>]
    /\ qret = NoQuery

\* Variant: an empty shape is replaced by the single square.
init_defaulting(squares_coords) ==
    IF squares_coords = {}
    THEN /\ init_call = [squares_coords |-> squares_coords, raised |-> None]
         /\ Constructed(simple_square)
    ELSE /\ init_call = [squares_coords |-> squares_coords, raised |-> None]
         /\ Constructed(squares_coords)

\* FragmentedSquaresGame(squares_coords): __init__.
init(squares_coords) ==
    IF squares_coords = {}
    THEN /\ init_call = [squares_coords |-> squares_coords,
                         raised |-> "ValueError"]
         /\ NoInstance
    ELSE /\ init_call = [squares_coords |-> squares_coords, raised |-> None]
         /\ Constructed(squares_coords)

\* __init__ with a non-empty shape, followed by reset().
Init == \E squares_coords \in Shapes : init(squares_coords)

\* __init__ with any shape a caller may pass, the empty one included.
InitAnyShape == \E squares_coords \in Shapes \cup {{}} : init(squares_coords)

\* Variant: the edge map is not rebuilt.
reset_keeps_edges ==
    /\ active_squares_coords' = all_squares_coords
    /\ current_player' = LEFT_PLAYER
    /\ winner' = None
    /\ last_move_destructions' = 0
    /\ move_history' = <<>>
    /\ qret' = NoQuery
    /\ UNCHANGED <<all_squares_coords, edges, ret, init_call>>

reset ==
    /\ active_squares_coords' = all_squares_coords
    /\ current_player' = LEFT_PLAYER
    /\ winner' = None
    /\ last_move_destructions' = 0
    /\ move_history' = <<>>
    /\ edges' \in _initialize_edges[all_squares_coords]
    /\ qret' = NoQuery
    /\ UNCHANGED <<all_squares_coords, ret, init_call>>

\* Variant: the edge is marked removed before the move is validated.
RejectMove_marks(e) ==
    /\ ret' = [success |-> FALSE,
               message |-> <<"Invalid Move: ">> \o invalid_reason(e)]
    /\ edges' = IF e \in DOMAIN edges
                THEN [edges EXCEPT ![e].exists = FALSE] ELSE edges
    /\ UNCHANGED <<all_squares_coords, active_squares_coords,
                   current_player, winner, last_move_destructions,
                   move_history>>

\* make_move on an edge is_valid_move rejects.
RejectMove(e) ==
    /\ ret' = [success |-> FALSE,
               message |-> <<"Invalid Move: ">> \o invalid_reason(e)]
    /\ UNCHANGED <<all_squares_coords, active_squares_coords, edges,
                   current_player, winner, last_move_destructions,
                   move_history>>

\* Variant: the message is built from the count of the move before.
PerformMove_stale(e) ==
    LET destroyed == destroyed_this_turn(e)
        active_after == active_after_move(e)
        new_winner == winner_after_move(active_after)
    IN  /\ edges' = edges_after_move(e)
        /\ active_squares_coords' = active_after
        /\ last_move_destructions' = Cardinality(destroyed)
        /\ move_history' = Append(move_history, move_data(e, active_after))
        /\ winner' = new_winner
        /\ current_player' = player_after_move(new_winner)
        /\ ret' = [success |-> TRUE,
                   message |-> <<"Destroyed ", Str(last_move_destructions),
                                 " square(s).">>]
        /\ UNCHANGED all_squares_coords

\* make_move on an edge is_valid_move accepts.
PerformMove(e) ==
    LET destroyed == destroyed_this_turn(e)
        active_after == active_after_move(e)
        new_winner == winner_after_move(active_after)
    IN  /\ edges' = edges_after_move(e)
        /\ active_squares_coords' = active_after
        /\ last_move_destructions' = Cardinality(destroyed)
        /\ move_history' = Append(move_history, move_data(e, active_after))
        /\ winner' = new_winner
        /\ current_player' = player_after_move(new_winner)
        /\ ret' = [success |-> TRUE,
                   message |-> <<"Destroyed ", Str(Cardinality(destroyed)),
                                 " square(s).">>]
        /\ UNCHANGED all_squares_coords

make_move(e) ==
    /\ IF ~is_valid_move(e) THEN RejectMove(e) ELSE PerformMove(e)
    /\ qret' = NoQuery
    /\ UNCHANGED init_call

\* Variant: listing the legal moves hands the turn to the other player.
call_get_legal_moves_turn ==
    /\ qret' = [NoQuery EXCEPT !.call = "get_legal_moves",
                               !.legal = get_legal_moves]
    /\ current_player' = IF current_player = LEFT_PLAYER
                         THEN RIGHT_PLAYER ELSE LEFT_PLAYER
    /\ UNCHANGED <<all_squares_coords, active_squares_coords, edges,
                   winner, last_move_destructions, move_history, ret,
                   init_call>>

\* A call of the query is_valid_move(e).
call_is_valid_move(e) ==
    /\ qret' = [NoQuery EXCEPT !.call = "is_valid_move",
                               !.valid = is_valid_move(e)]
    /\ UNCHANGED <<all_squares_coords, active_squares_coords, edges,
                   current_player, winner, last_move_destructions,
                   move_history, ret, init_call>>

\* A call of the query get_legal_moves().
call_get_legal_moves ==
    /\ qret' = [NoQuery EXCEPT !.call = "get_legal_moves",
                               !.legal = get_legal_moves]
    /\ UNCHANGED <<all_squares_coords, active_squares_coords, edges,
                   current_player, winner, last_move_destructions,
                   move_history, ret, init_call>>

\* A call of the query get_state_summary().
call_get_state_summary ==
    /\ qret' = [NoQuery EXCEPT !.call = "get_state_summary",
                               !.summary = get_state_summary]
    /\ UNCHANGED <<all_squares_coords, active_squares_coords, edges,
                   current_player, winner, last_move_destructions,
                   move_history, ret, init_call>>

\* The mutating operations of an engine instance.
Next ==
    \/ \E e \in EdgeArgs : make_move(e)
    \/ reset

Spec == Init /\ [][Next]_vars

\* The mutating operations and the queries.
NextWithQueries ==
    \/ \E e \in EdgeArgs : make_move(e)
    \/ reset
    \/ \E e \in EdgeArgs : call_is_valid_move(e)
    \/ call_get_legal_moves
    \/ call_get_state_summary

SpecQueries == Init /\ [][NextWithQueries]_vars

\* Operations are called on an instance only: none exists if __init__ raised.
NextOnInstance ==
    \/ init_call.raised = None /\ \E e \in EdgeArgs : make_move(e)
    \/ init_call.raised = None /\ reset

SpecAnyShape == InitAnyShape /\ [][NextOnInstance]_vars

TypeOK ==
    /\ all_squares_coords \in Shapes
    /\ active_squares_coords \subseteq all_squares_coords
    /\ current_player \in {LEFT_PLAYER, RIGHT_PLAYER}
    /\ winner \in {None, LEFT_PLAYER, RIGHT_PLAYER}
    /\ last_move_destructions \in 0..2
    /\ ret.success \in BOOLEAN

(* ------------------------ helpers of the claims ------------------------ *)
\* Left owns Blue, Right owns Red.
OwnedColor(p) ==
    CASE p = LEFT_PLAYER -> BLUE
      [] p = RIGHT_PLAYER -> RED

OtherPlayer(p) ==
    CASE p = LEFT_PLAYER -> RIGHT_PLAYER
      [] p = RIGHT_PLAYER -> LEFT_PLAYER

\* The engine state a caller can observe (everything but the return value).
EngineState ==
    <<all_squares_coords, active_squares_coords, edges, current_player,
      winner, last_move_destructions, move_history>>

\* A step that is a make_move call on e which succeeds / fails.
SuccessfulMove(e) == is_valid_move(e) /\ make_move(e)
FailedMove(e) == ~is_valid_move(e) /\ make_move(e)

\* The reason part of a failure message.
ReasonOf(message) == SubSeq(message, 2, Len(message))

(* --------------------------------- C1 ---------------------------------- *)
\* C1: for every edge identifier, is_valid_move is true exactly when no
\* winner is set, the edge is in the edge map with 'exists' true, its colour
\* is the current player's colour, and it borders an active square.
C1_IsValidMoveIff ==
    \A e \in EdgeArgs :
        is_valid_move(e) <=>
            /\ winner = None
            /\ e \in DOMAIN edges
            /\ edges[e].exists
            /\ edges[e].color = OwnedColor(current_player)
            /\ get_squares_sharing_edge(e) \cap active_squares_coords # {}

\* A game in progress with a legal edge, an unknown edge, a removed edge, an
\* edge of the other colour, and an own-colour edge whose squares are gone.
C1_Witness ==
    /\ winner = None
    /\ \E e \in EdgeArgs : is_valid_move(e)
    /\ \E e \in EdgeArgs : e \notin DOMAIN edges
    /\ \E e \in DOMAIN edges : ~edges[e].exists
    /\ \E e \in DOMAIN edges :
          edges[e].exists /\ edges[e].color # OwnedColor(current_player)
    /\ \E e \in DOMAIN edges :
          /\ edges[e].exists
          /\ edges[e].color = OwnedColor(current_player)
          /\ get_squares_sharing_edge(e) \cap active_squares_coords = {}
          /\ ~is_valid_move(e)

(* --------------------------------- C2 ---------------------------------- *)
\* C2: a successful make_move on e sets e's 'exists' flag to false and
\* removes from the active set exactly the squares sharing e that were
\* active, which are at most 2, and exactly 2 when e borders two active
\* squares.
C2_Destruction ==
    [][ \A e \in EdgeArgs :
          SuccessfulMove(e) =>
            LET bordered == get_squares_sharing_edge(e) \cap active_squares_coords
                gone == active_squares_coords \ active_squares_coords'
            IN  /\ ~edges'[e].exists
                /\ active_squares_coords' \subseteq active_squares_coords
                /\ gone = bordered
                /\ Cardinality(gone) <= 2
                /\ last_move_destructions' = Cardinality(gone)
                /\ (\E s1, s2 \in active_squares_coords :
                      /\ s1 # s2
                      /\ e \in get_edges_of_square(s1)
                      /\ e \in get_edges_of_square(s2))
                   => Cardinality(gone) = 2 ]_vars

\* A move has just destroyed two squares at once and the game goes on.
C2_Witness ==
    /\ ret.success
    /\ move_history # <<>>
    /\ Cardinality(move_history[Len(move_history)].squares_destroyed) = 2
    /\ active_squares_coords # {}

(* --------------------------------- C3 ---------------------------------- *)
\* C3 (state part): the winner is set iff the active set is empty, and the
\* only record marked game_over_after is the last one of a finished game,
\* carrying the winner, who is the player of that record.
C3_WinnerState ==
    /\ winner \in {None, LEFT_PLAYER, RIGHT_PLAYER}
    /\ (winner # None) <=> (active_squares_coords = {})
    /\ \A k \in 1..Len(move_history) :
          /\ move_history[k].game_over_after
               <=> (k = Len(move_history) /\ winner # None)
          /\ move_history[k].game_over_after
               => /\ move_history[k].winner = winner
                  /\ move_history[k].player = winner
          /\ ~move_history[k].game_over_after
               => move_history[k].winner = None

\* C3 (step part): a make_move call never changes or clears a set winner,
\* and sets the winner only by a successful move that empties the active
\* set, to the player who made it.
C3_WinnerStep ==
    \A e \in EdgeArgs :
        make_move(e) =>
          /\ winner # None => winner' = winner
          /\ (winner = None /\ winner' # None)
               => /\ is_valid_move(e)
                  /\ active_squares_coords # {}
                  /\ active_squares_coords' = {}
                  /\ winner' = current_player
          /\ (is_valid_move(e) /\ active_squares_coords' = {})
               => winner' = current_player

\* C3: between resets the winner goes from unset to a player exactly once,
\* at the successful move that empties the active set, to the mover; that
\* move's record is the only one marked game_over_after; the winner is set
\* iff the active set is empty and does not change until reset.
C3_WinnerOnce == []C3_WinnerState /\ [][C3_WinnerStep]_vars

\* A game of at least two moves has just been won.
C3_Witness ==
    /\ winner # None
    /\ Len(move_history) >= 2
    /\ move_history[Len(move_history)].game_over_after

(* --------------------------------- C4 ---------------------------------- *)
\* C4: once a winner is set, every make_move call on any edge fails and
\* appends nothing to the move history (until reset).
C4_FinishedIsTerminal ==
    [][ \A e \in EdgeArgs :
          (winner # None /\ make_move(e)) =>
              /\ ~ret'.success
              /\ move_history' = move_history
              /\ winner' = winner ]_vars

\* The game is over and a call on an edge still present and of the winner's
\* colour (legal before the winning move) has just been rejected.
C4_Witness ==
    /\ winner # None
    /\ ~ret.success
    /\ Len(ret.message) = 2
    /\ ret.message[2] = "Edge does not border any active squares"
    /\ \E e \in DOMAIN edges :
          /\ edges[e].exists
          /\ edges[e].color = OwnedColor(current_player)
          /\ e \in UNION { get_edges_of_square(sq) :
                             sq \in move_history[Len(move_history)].squares_destroyed }

(* --------------------------------- C5 ---------------------------------- *)
\* C5 (state part): a game with no move made is in InProgress(Left); after
\* the game ends the current player equals the winner.
C5_TurnState ==
    /\ move_history = <<>> => (current_player = LEFT_PLAYER /\ winner = None)
    /\ winner # None => current_player = winner

\* C5 (step part): a successful move by p hands the turn to the other player
\* if a square remains active and otherwise keeps it at p and makes p the
\* winner; a failed move leaves the current player alone.
C5_TurnStep ==
    \A e \in EdgeArgs :
        /\ SuccessfulMove(e) =>
              IF active_squares_coords' # {}
              THEN current_player' = OtherPlayer(current_player)
                   /\ winner' = None
              ELSE current_player' = current_player
                   /\ winner' = current_player
        /\ FailedMove(e) => current_player' = current_player

\* C5: the game starts in InProgress(Left); a successful make_move by p
\* passes the turn to the other player if any square remains active, else
\* leaves it at p and sets the winner to p; no failed call changes it.
C5_TurnMachine == []C5_TurnState /\ [][C5_TurnStep]_vars

\* Right has just won: the turn went Left -> Right and froze at the winner.
C5_Witness ==
    /\ winner = RIGHT_PLAYER
    /\ current_player = RIGHT_PLAYER
    /\ ret.success

(* --------------------------------- C6 ---------------------------------- *)
\* C6: a make_move call that fails leaves the whole engine state unchanged:
\* active squares, every edge's colour and 'exists' flag, current player,
\* winner and move history are as before the call.
C6_FailureKeepsState ==
    [][ \A e \in EdgeArgs :
          (make_move(e) /\ ~ret'.success) =>
              /\ active_squares_coords' = active_squares_coords
              /\ edges' = edges
              /\ current_player' = current_player
              /\ winner' = winner
              /\ move_history' = move_history
              /\ EngineState' = EngineState ]_vars

\* In a running game with moves made, a move on an existing edge of the
\* other player's colour that borders an active square was just rejected.
C6_Witness ==
    /\ winner = None
    /\ move_history # <<>>
    /\ ~ret.success
    /\ Len(ret.message) > 2
    /\ ret.message[3] = current_player
    /\ \E e \in DOMAIN edges :
          /\ edges[e].exists
          /\ edges[e].color # OwnedColor(current_player)
          /\ get_squares_sharing_edge(e) \cap active_squares_coords # {}

(* --------------------------------- C7 ---------------------------------- *)
\* C7: the active-square set is always a subset of the original shape, and
\* no make_move call makes it grow: a square that has left the active set
\* is not active again without a reset.
C7_ActiveShrinks ==
    /\ [](active_squares_coords \subseteq all_squares_coords)
    /\ [][ \A e \in EdgeArgs :
             make_move(e) =>
                 /\ active_squares_coords' \subseteq active_squares_coords
                 /\ all_squares_coords' = all_squares_coords ]_vars

\* A move was made on an edge shared by a square destroyed earlier and a
\* square still active.
C7_Witness ==
    \E k \in 1..Len(move_history) :
        \E sq \in get_squares_sharing_edge(move_history[k].edge_removed) :
            /\ sq \notin move_history[k].active_squares_before
            /\ sq \notin active_squares_coords
            /\ move_history[k].squares_destroyed # {}

(* --------------------------------- C8 ---------------------------------- *)
\* C8: no make_move call changes the set of edge identifiers or an edge's
\* colour, an 'exists' flag only goes from true to false, and a successful
\* make_move on e changes the 'exists' flag of e and no other edge.
C8_EdgeFrame ==
    [][ \A e \in EdgeArgs :
          make_move(e) =>
              /\ DOMAIN edges' = DOMAIN edges
              /\ \A f \in DOMAIN edges :
                    /\ edges'[f].color = edges[f].color
                    /\ edges'[f].exists => edges[f].exists
              /\ is_valid_move(e) =>
                    /\ edges[e].exists /\ ~edges'[e].exists
                    /\ \A f \in DOMAIN edges \ {e} : edges'[f] = edges[f] ]_vars

\* Two moves were made, an edge is gone and a square destroyed by a move
\* still has an edge present.
C8_Witness ==
    /\ Len(move_history) >= 2
    /\ \E f \in DOMAIN edges : ~edges[f].exists
    /\ \E sq \in all_squares_coords \ active_squares_coords :
          \E f \in get_edges_of_square(sq) : edges[f].exists

(* --------------------------------- C9 ---------------------------------- *)
\* C9 (state part): record k has turn number k, and the last record's
\* active_squares_after is the live active set.
C9_HistoryState ==
    /\ \A k \in 1..Len(move_history) : move_history[k].turn = k
    /\ move_history # <<>> =>
          move_history[Len(move_history)].active_squares_after
              = active_squares_coords

\* C9 (step part): a successful call appends one record and keeps the
\* earlier ones in order, a failed call leaves the history alone, and a
\* reset empties it.
C9_HistoryStep ==
    /\ \A e \in EdgeArgs :
          /\ SuccessfulMove(e) =>
                /\ Len(move_history') = Len(move_history) + 1
                /\ SubSeq(move_history', 1, Len(move_history)) = move_history
          /\ FailedMove(e) => move_history' = move_history
    /\ reset => move_history' = <<>>

\* C9: after N successful make_move calls since construction or the last
\* reset, with failed calls in between, move_history has exactly N records
\* with turn numbers 1..N in order and the last record's
\* active_squares_after equals the live active set.
C9_HistoryIntegrity ==
    /\ move_history = <<>>
    /\ []C9_HistoryState
    /\ [][C9_HistoryStep]_vars

\* Three moves are recorded and the last call was a failed one.
C9_Witness ==
    /\ Len(move_history) = 3
    /\ ~ret.success
    /\ ret.message # <<>>

(* --------------------------------- C10 --------------------------------- *)
\* The cause of a rejection of e, as the rules name it.
Cause(e) ==
    IF winner # None THEN "game already over"
    ELSE IF e \notin DOMAIN edges \/ ~edges[e].exists
         THEN "edge unknown or already removed"
    ELSE IF edges[e].color # OwnedColor(current_player)
         THEN "wrong color for the current player"
    ELSE "edge borders no active square"

\* The cause a reason text tells the caller.
CauseTold(reason) ==
    IF reason = <<>> THEN "none"
    ELSE CASE reason[1] = "Edge does not exist or already removed"
                -> "edge unknown or already removed"
           [] reason[1] = "Incorrect color (Player: "
                -> "wrong color for the current player"
           [] reason[1] = "Edge does not border any active squares"
                -> "edge borders no active square"
           [] OTHER -> "unclassified"

\* C10: every failing make_move returns a reason that tells which rule was
\* violated, the four causes being distinguishable; a make_move made after
\* the game has ended reports the game-already-over cause.
C10_ReasonTellsCause ==
    [][ \A e \in EdgeArgs :
          FailedMove(e) =>
              /\ ~ret'.success
              /\ IF winner # None
                 THEN CauseTold(ReasonOf(ret'.message))
                          \notin { "edge unknown or already removed",
                                   "wrong color for the current player",
                                   "edge borders no active square" }
                 ELSE CauseTold(ReasonOf(ret'.message)) = Cause(e) ]_vars

(* --------------------------------- C11 --------------------------------- *)
\* C11: reset, from any reachable state and any number of times in a row,
\* restores the initial state for the same shape: active squares are the
\* full original shape, the current player is Left, the winner is unset,
\* the history is empty, and the edge map has the edge identifiers of
\* construction with every 'exists' flag true (colours may differ).
C11_ResetRestores ==
    [][ reset =>
          /\ all_squares_coords' = all_squares_coords
          /\ active_squares_coords' = all_squares_coords
          /\ current_player' = LEFT_PLAYER
          /\ winner' = None
          /\ move_history' = <<>>
          /\ DOMAIN edges' = DOMAIN edges
          /\ DOMAIN edges' = EdgeKeys(all_squares_coords)
          /\ \A f \in DOMAIN edges' :
                edges'[f].exists /\ edges'[f].color \in {RED, BLUE} ]_vars

\* A reset has followed a successful move: the board is whole again while
\* the last value make_move returned is still that of the move.
C11_Witness ==
    /\ move_history = <<>>
    /\ ret.success
    /\ active_squares_coords = all_squares_coords
    /\ \A f \in DOMAIN edges : edges[f].exists

(* --------------------------------- C12 --------------------------------- *)
\* C12: the edge map is exactly the union of the four bounding edges of the
\* shape's squares: every edge in it borders a square of the shape and no
\* bounding edge of a shape square is missing; shape {(0,0)} has 4 edges
\* and the 2x2 block has 12.
C12_EdgeMapIsShapeBoundary ==
    /\ DOMAIN edges =
          UNION { get_edges_of_square(sq) : sq \in all_squares_coords }
    /\ \A e \in DOMAIN edges : get_squares_sharing_edge(e) # {}
    /\ all_squares_coords = simple_square => Cardinality(DOMAIN edges) = 4
    /\ all_squares_coords = two_by_two => Cardinality(DOMAIN edges) = 12

\* A freshly constructed 2x2 block, whose interior edges are shared.
C12_Witness ==
    /\ all_squares_coords = two_by_two
    /\ move_history = <<>>
    /\ Cardinality(DOMAIN edges) = 12
    /\ \E e \in DOMAIN edges : Cardinality(get_squares_sharing_edge(e)) = 2

(* --------------------------------- C14 --------------------------------- *)
\* The record of the most recent successful move.
LastRecord == move_history[Len(move_history)]

\* C14 (as claimed): the value returned by a successful make_move contains
\* the number of squares the move destroyed and whether the move ended the
\* game; so two successful moves in a row that return the same value either
\* both end the game or neither does.
C14_ReturnTellsCountAndEnd ==
    [][ ( /\ ret'.success
          /\ Len(move_history') = Len(move_history) + 1 )
        => /\ ret'.message[2]
                = Str(Cardinality(move_history'[Len(move_history')].squares_destroyed))
           /\ ( /\ ret.success
                /\ move_history # <<>>
                /\ ret' = ret )
              => ( move_history'[Len(move_history')].game_over_after
                     <=> LastRecord.game_over_after ) ]_vars

\* C14 (amended): the value returned by a successful make_move is success
\* with the message "Destroyed n square(s)." where n is the size of the
\* record's squares_destroyed set; whether the move ended the game is told
\* by the winner field and the record's game_over_after, not by the value.
C14_ReturnsCount ==
    (ret.success /\ move_history # <<>>) =>
        /\ ret.message = << "Destroyed ",
                            Str(Cardinality(LastRecord.squares_destroyed)),
                            " square(s)." >>
        /\ Cardinality(LastRecord.squares_destroyed) \in 0..2
        /\ last_move_destructions = Cardinality(LastRecord.squares_destroyed)
        /\ LastRecord.game_over_after <=> (winner # None)

\* A move has just destroyed the last two squares at once and ended the game.
C14_Witness ==
    /\ ret.success
    /\ move_history # <<>>
    /\ LastRecord.game_over_after
    /\ Cardinality(LastRecord.squares_destroyed) = 2
    /\ ret.message[2] = "2"

(* --------------------------------- C16 --------------------------------- *)
\* C16: every history record is a faithful snapshot of its move:
\* active_squares_before is the active set right before the move,
\* active_squares_after the set right after it, squares_destroyed is before
\* minus after, player is the mover, edge_color the colour of the edge; a
\* later move appends a record and alters no earlier one.
C16_RecordIsSnapshot ==
    [][ \A e \in EdgeArgs :
          SuccessfulMove(e) =>
            LET rec == move_history'[Len(move_history')]
            IN  /\ Len(move_history') = Len(move_history) + 1
                /\ SubSeq(move_history', 1, Len(move_history)) = move_history
                /\ rec.edge_removed = e
                /\ rec.active_squares_before = active_squares_coords
                /\ rec.active_squares_after = active_squares_coords'
                /\ rec.squares_destroyed
                     = rec.active_squares_before \ rec.active_squares_after
                /\ rec.player = current_player
                /\ rec.edge_color
                     = (IF edges[e].color = BLUE THEN "Blue" ELSE "Red")
                /\ rec.edge_color
                     = (IF rec.player = LEFT_PLAYER THEN "Blue" ELSE "Red") ]_vars

\* Two records of different players and colours, the first of which shows
\* squares that the second no longer has.
C16_Witness ==
    /\ Len(move_history) >= 2
    /\ move_history[1].player # move_history[2].player
    /\ move_history[1].edge_color # move_history[2].edge_color
    /\ move_history[1].active_squares_before
          # move_history[2].active_squares_before
    /\ move_history[2].active_squares_before
          = move_history[1].active_squares_after

(* --------------------------------- C17 --------------------------------- *)
\* Edge e is removable by player p under the rules of is_valid_move.
LegalFor(p, e) ==
    /\ winner = None
    /\ e \in DOMAIN edges
    /\ edges[e].exists
    /\ edges[e].color = OwnedColor(p)
    /\ get_squares_sharing_edge(e) \cap active_squares_coords # {}

\* C17 (as claimed): in every reachable state with no winner the current
\* player has at least one legal move.
C17_CurrentPlayerCanMove ==
    winner = None => get_legal_moves # {}

\* C17 (amended): in every reachable state with no winner at least one of
\* the two players has a legal move; the current player has none exactly
\* when every existing edge bordering an active square has the other
\* player's colour, and the game is then stuck until reset.
C17_SomePlayerCanMove ==
    winner = None =>
        /\ \E p \in {LEFT_PLAYER, RIGHT_PLAYER} :
              \E e \in DOMAIN edges : LegalFor(p, e)
        /\ get_legal_moves = {} <=>
              \A e \in DOMAIN edges :
                  ~LegalFor(current_player, e)
                  /\ (LegalFor(OtherPlayer(current_player), e)
                        <=> (edges[e].exists
                             /\ get_squares_sharing_edge(e)
                                  \cap active_squares_coords # {}))

\* After some moves the player to move has no legal edge while the game is
\* not over.
C17_Witness ==
    /\ winner = None
    /\ move_history # <<>>
    /\ get_legal_moves = {}
    /\ \E e \in DOMAIN edges : LegalFor(OtherPlayer(current_player), e)

(* --------------------------------- C18 --------------------------------- *)
\* C18: every active square has its four bounding edges in the edge map
\* with 'exists' true; equivalently, a removed edge borders no active square.
C18_ActiveSquaresAreWhole ==
    /\ \A sq \in active_squares_coords :
          \A e \in get_edges_of_square(sq) :
              e \in DOMAIN edges /\ edges[e].exists
    /\ \A e \in DOMAIN edges :
          ~edges[e].exists =>
              get_squares_sharing_edge(e) \cap active_squares_coords = {}

\* Mid-game: a removed interior edge, destroyed squares on both its sides,
\* and a square still active.
C18_Witness ==
    /\ active_squares_coords # {}
    /\ \E e \in DOMAIN edges :
          /\ ~edges[e].exists
          /\ Cardinality(get_squares_sharing_edge(e)) = 2
    /\ \E e \in DOMAIN edges :
          /\ edges[e].exists
          /\ get_squares_sharing_edge(e) \cap active_squares_coords # {}
          /\ get_squares_sharing_edge(e) \ active_squares_coords # {}

(* --------------------------------- C19 --------------------------------- *)
\* C19: every successful make_move destroys at least one square: no record
\* has an empty squares_destroyed set, and each move leaves strictly fewer
\* active squares than it found.
C19_MoveDestroys ==
    \A k \in 1..Len(move_history) :
        /\ move_history[k].squares_destroyed # {}
        /\ Cardinality(move_history[k].active_squares_after)
              < Cardinality(move_history[k].active_squares_before)

\* A move was made although an existing edge of the mover's colour bordering
\* only destroyed squares was on the board.
C19_Witness ==
    /\ Len(move_history) >= 2
    /\ LET rec == move_history[Len(move_history)]
       IN  \E e \in DOMAIN edges :
              /\ edges[e].exists
              /\ e # rec.edge_removed
              /\ ColorName(edges[e].color) = rec.edge_color
              /\ get_squares_sharing_edge(e) # {}
              /\ get_squares_sharing_edge(e) \cap rec.active_squares_before = {}

(* --------------------------------- C20 --------------------------------- *)
\* C20: between resets the number of successful moves never exceeds the
\* number of squares of the original shape (each move uses up at least one
\* square), so no unbounded run of successful moves exists without a reset.
C20_MovesBoundedBySquares ==
    /\ Len(move_history) <= Cardinality(all_squares_coords)
    /\ Len(move_history) + Cardinality(active_squares_coords)
          <= Cardinality(all_squares_coords)

\* A game on a shape of at least three squares that took one move per square.
C20_Witness ==
    /\ Cardinality(all_squares_coords) >= 3
    /\ Len(move_history) = Cardinality(all_squares_coords)
    /\ winner # None

(* --------------------------------- C13 --------------------------------- *)
\* C13: the queries is_valid_move, get_legal_moves and get_state_summary
\* never change engine state, whatever their arguments and however often
\* they are called, and get_legal_moves returns exactly the edges of the
\* edge map for which is_valid_move is true in the current state.
C13_QueriesArePure ==
    [][ qret'.call # "none" =>
          /\ EngineState' = EngineState
          /\ ret' = ret
          /\ init_call' = init_call
          /\ qret'.call = "is_valid_move" =>
                \E e \in EdgeArgs : qret'.valid = is_valid_move(e)
          /\ qret'.call = "get_legal_moves" =>
                /\ qret'.legal \subseteq DOMAIN edges
                /\ \A e \in EdgeArgs :
                      e \in qret'.legal <=> is_valid_move(e)
          /\ qret'.call = "get_state_summary" =>
                /\ qret'.summary.active_squares
                      = Cardinality(active_squares_coords')
                /\ qret'.summary.current_player = current_player'
                /\ qret'.summary.winner = winner'
                /\ qret'.summary.total_moves = Len(move_history') ]_vars

\* Mid-game, get_legal_moves has just returned some but not all of the
\* current player's existing edges.
C13_Witness ==
    /\ qret.call = "get_legal_moves"
    /\ move_history # <<>>
    /\ qret.legal # {}
    /\ \E e \in DOMAIN edges :
          /\ edges[e].exists
          /\ edges[e].color = OwnedColor(current_player)
          /\ e \notin qret.legal

(* --------------------------------- C15 --------------------------------- *)
\* C15: constructing the engine with an empty shape fails with an error
\* surfaced to the caller and yields no engine instance (no default shape
\* is substituted); constructing with a non-empty shape succeeds.
C15_EmptyShapeRejected ==
    /\ init_call.squares_coords = {} =>
          /\ init_call.raised = "ValueError"
          /\ all_squares_coords = {}
          /\ active_squares_coords = {}
          /\ DOMAIN edges = {}
          /\ move_history = <<>>
    /\ init_call.squares_coords # {} =>
          /\ init_call.raised = None
          /\ all_squares_coords = init_call.squares_coords
          /\ DOMAIN edges # {}

\* The constructor was called with the empty shape and raised.
C15_Witness ==
    /\ init_call.squares_coords = {}
    /\ init_call.raised = "ValueError"

(* --------------------------------- C21 --------------------------------- *)
\* C21: players alternate strictly in the move history: record k was made
\* by Left when k is odd and by Right when k is even, and a record's
\* edge_color is "Blue" exactly when its player is Left and "Red" exactly
\* when its player is Right.
C21_PlayersAlternate ==
    \A k \in 1..Len(move_history) :
        /\ move_history[k].player
              = (IF k % 2 = 1 THEN LEFT_PLAYER ELSE RIGHT_PLAYER)
        /\ move_history[k].edge_color = "Blue"
              <=> move_history[k].player = LEFT_PLAYER
        /\ move_history[k].edge_color = "Red"
              <=> move_history[k].player = RIGHT_PLAYER

\* Three moves are recorded: Left with a Blue edge, Right with a Red one,
\* Left with a Blue one again.
C21_Witness ==
    /\ Len(move_history) >= 3
    /\ move_history[1].edge_color = "Blue"
    /\ move_history[2].edge_color = "Red"
    /\ move_history[3].player = LEFT_PLAYER

(* --------------------------------- C22 --------------------------------- *)
\* The three reasons make_move classifies a rejection by.
ClassifiedReasons ==
    { "Edge does not exist or already removed",
      "Incorrect color (Player: ",
      "Edge does not border any active squares" }

\* C22: make_move never returns the fallback "Unknown reason": every edge
\* it would reject, and every rejection it has returned, is classified as
\* one of the three reasons, also after the game has ended (when the winner
\* is set the active set is empty).
C22_NoUnknownReason ==
    /\ \A e \in EdgeArgs :
          ~is_valid_move(e) =>
              /\ invalid_reason(e) # <<"Unknown reason">>
              /\ invalid_reason(e)[1] \in ClassifiedReasons
    /\ (~ret.success /\ ret.message # <<>>) =>
          /\ ret.message[1] = "Invalid Move: "
          /\ ret.message[2] # "Unknown reason"
          /\ ret.message[2] \in ClassifiedReasons
    /\ winner # None => active_squares_coords = {}

\* After the game has ended, a call on an existing edge of the other colour
\* was rejected as "Incorrect color", while an existing edge of the winner's
\* colour is still on the board.
C22_Witness ==
    /\ winner # None
    /\ ~ret.success
    /\ Len(ret.message) > 2
    /\ ret.message[2] = "Incorrect color (Player: "
    /\ \E e \in DOMAIN edges :
          /\ edges[e].exists
          /\ edges[e].color = OwnedColor(current_player)
          /\ invalid_reason(e) = <<"Edge does not border any active squares">>
====
